---- MODULE Spec2Model ----
(***************************************************************************)
(* Model of src/assessment.js: the paginated patient fetch with retry and  *)
(* backoff (fetchAndStorePage, fetchPatients), the classification          *)
(* (analyze) and the report submission (submit, run).                      *)
(***************************************************************************)
EXTENDS Integers, Sequences, FiniteSets, TLC

\* ------------------------------------------------------------------ bounds
\* longest record list the remote puts in one response of the unit harness
MaxRecs == 2
\* number of pages whose first-pass call the remote makes fail during one run
MaxFailedPages == 2

\* ------------------------------------------------------- program constants
totalPages == 10
DefaultRetries == 5
RecoveryRetries == 8
RateLimitBase == 4000
RateLimitStep == 1000
RetryDelay == 2000

\* --------------------------------------------------------------- JS values
\* Every JavaScript value carries its type tag in field t.
Undefined == [t |-> "undefined"]
Null == [t |-> "null"]
Str(cs) == [t |-> "string", v |-> cs]
\* a number v / 10^e, written with its fractional digits
NumDec(n, k) == [t |-> "number", v |-> n, e |-> k]
Num(n) == NumDec(n, 0)
Arr(s) == [t |-> "array", v |-> s]
\* a plain object used as a map; v lists Object.values(...) in key order
Map(s) == [t |-> "object", v |-> s]
\* a patient record; page is the page of the response that carried it (not
\* a member of the object); a member that is Undefined is an absent key
Patient(id, p, bp, temp, age) ==
    [t |-> "object", kind |-> "patient", patient_id |-> id, page |-> p,
     blood_pressure |-> bp, temperature |-> temp, age |-> age]
\* a response body that is a JSON object with the two members the code reads
Body(d, ps) == [t |-> "object", kind |-> "body", data |-> d, patients |-> ps]

\* JavaScript truthiness (ToBoolean)
Truthy(x) ==
    CASE x.t = "undefined" -> FALSE
      [] x.t = "null" -> FALSE
      [] x.t = "string" -> x.v # <<>>
      [] x.t = "number" -> x.v # 0
      [] OTHER -> TRUE

IsArray(x) == x.t = "array"
TypeofObject(x) == x.t \in {"object", "array", "null"}

IsPatient(x) == x.t = "object" /\ "kind" \in DOMAIN x /\ x.kind = "patient"
IsBody(x) == x.t = "object" /\ "kind" \in DOMAIN x /\ x.kind = "body"

\* p.patient_id for a value p that is neither null nor undefined
PatientId(p) == IF IsPatient(p) THEN p.patient_id ELSE Undefined
\* data.data and data.patients for a body that is neither null nor undefined
GetData(b) == IF IsBody(b) THEN b.data ELSE Undefined
GetPatients(b) == IF IsBody(b) THEN b.patients ELSE Undefined
\* the members of an object that are present
Present(s) == SelectSeq(s, LAMBDA x : x.t # "undefined")
\* Object.values(x): the member values in key order
ObjectValues(x) ==
    IF x.t = "array" THEN x.v
    ELSE IF x.t # "object" THEN <<>>
    ELSE IF "kind" \notin DOMAIN x THEN x.v
    ELSE IF x.kind = "patient"
         THEN Present(<<x.patient_id, x.blood_pressure, x.temperature, x.age>>)
    ELSE Present(<<x.data, x.patients>>)

RECURSIVE SelectSeqBy(_, _)
\* Array.prototype.filter with the predicate given as a set of kept values
SelectSeqBy(s, keep) ==
    IF s = <<>> THEN <<>>
    ELSE IF Head(s) \in keep THEN <<Head(s)>> \o SelectSeqBy(Tail(s), keep)
         ELSE SelectSeqBy(Tail(s), keep)

Range(s) == {s[i] : i \in DOMAIN s}

\* p => p?.patient_id
OptChainHasId(p) == IF p.t \in {"null", "undefined"} THEN FALSE ELSE Truthy(PatientId(p))
\* p => p && p.patient_id
HasTruthyIdNoIdTest(p) == Truthy(p)
HasTruthyId(p) == Truthy(p) /\ Truthy(PatientId(p))

\* lines 97-106: the three response shapes
Normalize(data) ==
    IF IsArray(GetData(data)) THEN GetData(data).v
    ELSE IF Truthy(GetData(data)) /\ TypeofObject(GetData(data))
         THEN SelectSeqBy(ObjectValues(GetData(data)),
                          {p \in Range(ObjectValues(GetData(data))) : OptChainHasId(p)})
    ELSE IF IsArray(GetPatients(data)) THEN GetPatients(data).v
    ELSE <<>>

\* line 108
ValidPatients(patients) ==
    SelectSeqBy(patients, {p \in Range(patients) : HasTruthyId(p)})

\* ----------------------------------------------------------- field parsers
\* Strings are sequences of one-character strings.
Digits == <<"0", "1", "2", "3", "4", "5", "6", "7", "8", "9">>
IsDigit(c) == \E i \in 1..10 : Digits[i] = c
DigitVal(c) == (CHOOSE i \in 1..10 : Digits[i] = c) - 1
\* A character outside printable ASCII is written as its code point, "U+00A0".
\* StrWhiteSpaceChar: white space and line terminators
WhiteSpace ==
    {" ", "\t", "\n", "\r", "\f", "U+000B", "U+00A0", "U+FEFF", "U+1680",
     "U+2000", "U+2001", "U+2002", "U+2003", "U+2004", "U+2005", "U+2006",
     "U+2007", "U+2008", "U+2009", "U+200A", "U+2028", "U+2029", "U+202F",
     "U+205F", "U+3000"}
IsSpace(c) == c \in WhiteSpace

RECURSIVE DigitsValue(_)
DigitsValue(cs) ==
    IF cs = <<>> THEN 0
    ELSE DigitsValue(SubSeq(cs, 1, Len(cs) - 1)) * 10 + DigitVal(cs[Len(cs)])

AllDigitsOrEmpty(cs) == \A i \in DOMAIN cs : IsDigit(cs[i])
\* /^\d+$/.test(cs)
AllDigits(cs) == cs # <<>> /\ \A i \in DOMAIN cs : IsDigit(cs[i])

\* bp.includes('/')
IncludesSlash(cs) == \E i \in DOMAIN cs : cs[i] = "/"

RECURSIVE SplitSlash(_)
\* bp.split('/')
SplitSlash(cs) ==
    IF ~IncludesSlash(cs) THEN <<cs>>
    ELSE LET i == CHOOSE k \in DOMAIN cs : cs[k] = "/" /\ \A j \in 1..(k - 1) : cs[j] # "/"
         IN <<SubSeq(cs, 1, i - 1)>> \o SplitSlash(SubSeq(cs, i + 1, Len(cs)))

\* lines 13-21; the result pair holds Null or a number
parseBloodPressure(bp) ==
    IF ~Truthy(bp) \/ bp.t # "string" \/ ~IncludesSlash(bp.v) THEN <<Null, Null>>
    ELSE LET parts == SplitSlash(bp.v)
             sys == parts[1]
             dia == parts[2]
         IN <<IF AllDigits(sys) THEN Num(DigitsValue(sys)) ELSE Null,
              IF AllDigits(dia) THEN Num(DigitsValue(dia)) ELSE Null>>

\* The numbers parseFloat and parseInt return: NaN, m / 10^e, or an infinity
\* (inf is its sign, 0 for a finite number). Integers stay below 2^31.
NaN == [nan |-> TRUE, inf |-> 0, m |-> 0, e |-> 0]
Dec(m, k) == [nan |-> FALSE, inf |-> 0, m |-> m, e |-> k]
Infinity(s) == [nan |-> FALSE, inf |-> s, m |-> 0, e |-> 0]

RECURSIVE StripLeft(_)
StripLeft(cs) == IF cs # <<>> /\ IsSpace(cs[1]) THEN StripLeft(Tail(cs)) ELSE cs
RECURSIVE DigitPrefixLen(_)
DigitPrefixLen(cs) ==
    IF cs # <<>> /\ IsDigit(cs[1]) THEN 1 + DigitPrefixLen(Tail(cs)) ELSE 0

RECURSIVE Pow10(_)
Pow10(k) == IF k = 0 THEN 1 ELSE 10 * Pow10(k - 1)

\* m / 10^k scaled by 10^x (x may be negative)
Scale(m, k, x) ==
    IF x >= k THEN Dec(m * Pow10(x - k), 0) ELSE Dec(m, k - x)

\* the exponent part of a decimal literal: [len, value], len = 0 when absent
ExponentPart(cs) ==
    IF cs = <<>> \/ cs[1] \notin {"e", "E"} THEN [len |-> 0, x |-> 0]
    ELSE LET s == Tail(cs)
             signed == s # <<>> /\ s[1] \in {"+", "-"}
             d == IF signed THEN Tail(s) ELSE s
             n == DigitPrefixLen(d)
             mag == DigitsValue(SubSeq(d, 1, n))
         IN IF n = 0 THEN [len |-> 0, x |-> 0]
            ELSE [len |-> n + 1 + (IF signed THEN 1 ELSE 0),
                  x |-> IF signed /\ s[1] = "-" THEN 0 - mag ELSE mag]

HexDigits == <<"0", "1", "2", "3", "4", "5", "6", "7", "8", "9",
               "a", "b", "c", "d", "e", "f">>
Lower(c) ==
    CASE c = "A" -> "a" [] c = "B" -> "b" [] c = "C" -> "c"
      [] c = "D" -> "d" [] c = "E" -> "e" [] c = "F" -> "f" [] OTHER -> c
IsHexDigit(c) == \E i \in 1..16 : HexDigits[i] = Lower(c)
HexVal(c) == (CHOOSE i \in 1..16 : HexDigits[i] = Lower(c)) - 1
RECURSIVE HexPrefixValue(_, _)
\* the value of the longest prefix of hexadecimal digits, NaN when it is empty
HexPrefixValue(cs, acc) ==
    IF cs # <<>> /\ IsHexDigit(cs[1])
    THEN HexPrefixValue(Tail(cs), Dec((IF acc.nan THEN 0 ELSE acc.m) * 16 + HexVal(cs[1]), 0))
    ELSE acc

InfinityChars == <<"I", "n", "f", "i", "n", "i", "t", "y">>
\* the number a string starts with: for parseFloat a StrDecimalLiteral
\* (Infinity, or digits, fraction, exponent), for parseInt an integer in
\* radix 10, or 16 after a 0x prefix
ParseDecimalString(cs, withFraction) ==
    LET s0 == StripLeft(cs)
        neg == s0 # <<>> /\ s0[1] = "-"
        s1 == IF s0 # <<>> /\ s0[1] \in {"+", "-"} THEN Tail(s0) ELSE s0
        inf == withFraction /\ Len(s1) >= 8 /\ SubSeq(s1, 1, 8) = InfinityChars
        hex == ~withFraction /\ Len(s1) >= 2 /\ s1[1] = "0" /\ s1[2] \in {"x", "X"}
        h == HexPrefixValue(SubSeq(s1, 3, Len(s1)), NaN)
        n == DigitPrefixLen(s1)
        rest == SubSeq(s1, n + 1, Len(s1))
        k == IF withFraction /\ rest # <<>> /\ rest[1] = "." THEN DigitPrefixLen(Tail(rest)) ELSE 0
        dot == IF withFraction /\ rest # <<>> /\ rest[1] = "." THEN 1 ELSE 0
        mag == DigitsValue(SubSeq(s1, 1, n) \o SubSeq(rest, 2, k + 1))
        ex == IF withFraction THEN ExponentPart(SubSeq(rest, k + dot + 1, Len(rest)))
              ELSE [len |-> 0, x |-> 0]
        d == Scale(IF neg THEN 0 - mag ELSE mag, k, ex.x)
    IN IF inf THEN Infinity(IF neg THEN 0 - 1 ELSE 1)
       ELSE IF hex THEN (IF h.nan THEN NaN ELSE Dec(IF neg THEN 0 - h.m ELSE h.m, 0))
       ELSE IF n = 0 /\ k = 0 THEN NaN
       ELSE d

RECURSIVE DigitsOf(_)
\* the decimal digits of a natural number
DigitsOf(n) == IF n < 10 THEN <<Digits[n + 1]>> ELSE Append(DigitsOf(n \div 10), Digits[(n % 10) + 1])
RECURSIVE Zeros(_)
Zeros(n) == IF n <= 0 THEN <<>> ELSE <<"0">> \o Zeros(n - 1)
RECURSIVE Canon(_, _)
\* m / 10^k written without trailing zeros in the fraction
Canon(m, k) == IF k > 0 /\ m % 10 = 0 THEN Canon(m \div 10, k - 1) ELSE Dec(m, k)

\* Number::toString: decimal notation, exponent notation below 10^-6
NumberToString(d) ==
    IF d.nan THEN <<"N", "a", "N">>
    ELSE IF d.inf # 0 THEN (IF d.inf < 0 THEN <<"-">> ELSE <<>>) \o InfinityChars
    ELSE LET c == Canon(d.m, d.e)
             ds == DigitsOf(IF c.m < 0 THEN 0 - c.m ELSE c.m)
             k == Len(ds)
             n == k - c.e
         IN (IF c.m < 0 THEN <<"-">> ELSE <<>>) \o
            (IF c.e = 0 THEN ds
             ELSE IF n > 0 THEN SubSeq(ds, 1, n) \o <<".">> \o SubSeq(ds, n + 1, k)
             ELSE IF n > 0 - 6 THEN <<"0", ".">> \o Zeros(0 - n) \o ds
             ELSE <<ds[1]>> \o (IF k > 1 THEN <<".">> \o SubSeq(ds, 2, k) ELSE <<>>)
                  \o <<"e", "-">> \o DigitsOf(1 - n))

RECURSIVE ToStringValue(_)
RECURSIVE Join(_)
\* Array.prototype.join(","): null and undefined elements give ""
Join(s) ==
    IF s = <<>> THEN <<>>
    ELSE (IF Head(s).t \in {"null", "undefined"} THEN <<>> ELSE ToStringValue(Head(s)))
         \o (IF Tail(s) = <<>> THEN <<>> ELSE <<",">> \o Join(Tail(s)))
\* the abstract operation ToString on a JSON value
ToStringValue(x) ==
    CASE x.t = "string" -> x.v
      [] x.t = "number" -> NumberToString(Dec(x.v, x.e))
      [] x.t = "null" -> <<"n", "u", "l", "l">>
      [] x.t = "undefined" -> <<"u", "n", "d", "e", "f", "i", "n", "e", "d">>
      [] x.t = "array" -> Join(x.v)
      [] OTHER -> <<"[", "o", "b", "j", "e", "c", "t", " ", "O", "b", "j", "e", "c", "t", "]">>

\* parseFloat(x) for a JSON value: ToString, then the longest decimal prefix
parseFloat(x) == ParseDecimalString(ToStringValue(x), TRUE)
\* parseInt(x) for a JSON value: ToString, then the longest integer prefix
parseInt(x) == ParseDecimalString(ToStringValue(x), FALSE)
\* parseFloat / parseInt of a value that is already a number (lines 34, 46):
\* ToString, then the same parse
parseFloatOfNumber(d) == ParseDecimalString(NumberToString(d), TRUE)
parseIntOfNumber(d) == ParseDecimalString(NumberToString(d), FALSE)

\* d <= n/10 and d >= n/10 for a threshold written in tenths
LeqTenths(d, n) == IF d.inf # 0 THEN d.inf < 0 ELSE d.m * 10 <= n * Pow10(d.e)
GeqTenths(d, n) == IF d.inf # 0 THEN d.inf > 0 ELSE d.m * 10 >= n * Pow10(d.e)

\* --------------------------------------------------------------- risk scorer
bpScoreWorstFirst(systolic, diastolic) ==
    IF systolic.t = "null" \/ diastolic.t = "null" THEN 0
    ELSE IF systolic.v >= 140 \/ diastolic.v >= 90 THEN 4
    ELSE IF systolic.v >= 130 \/ diastolic.v >= 80 THEN 3
    ELSE IF systolic.v >= 120 THEN 2
    ELSE 1
\* lines 23-30
bpScore(systolic, diastolic) ==
    IF systolic.t = "null" \/ diastolic.t = "null" THEN 0
    ELSE IF systolic.v < 120 /\ diastolic.v < 80 THEN 1
    ELSE IF systolic.v >= 120 /\ systolic.v <= 129 /\ diastolic.v < 80 THEN 2
    ELSE IF (systolic.v >= 130 /\ systolic.v <= 139) \/ (diastolic.v >= 80 /\ diastolic.v <= 89) THEN 3
    ELSE IF systolic.v >= 140 \/ diastolic.v >= 90 THEN 4
    ELSE 0

\* lines 32-42
tempScore(temp) ==
    LET t == parseFloatOfNumber(temp)
    IN IF t.nan THEN 0
       ELSE IF LeqTenths(t, 995) THEN 0
       ELSE IF GeqTenths(t, 996) /\ LeqTenths(t, 1009) THEN 1
       ELSE IF GeqTenths(t, 1010) THEN 2
       ELSE 0

ageScoreFrom40(age) ==
    LET a == parseIntOfNumber(age)
    IN IF a.nan THEN 0 ELSE IF a.m < 40 THEN 0 ELSE IF a.m <= 65 THEN 1 ELSE 2
\* lines 44-53
ageScore(age) ==
    LET a == parseIntOfNumber(age)
    IN IF a.nan THEN 0
       ELSE IF a.m < 40 THEN 1
       ELSE IF a.m <= 65 THEN 1
       ELSE IF a.m > 65 THEN 2
       ELSE 0

\* ----------------------------------------------------------------- analyze
\* lines 142-158: what analyze computes for one record
Classify(p) ==
    LET bp == parseBloodPressure(p.blood_pressure)
        sys == bp[1]
        dia == bp[2]
        t == parseFloat(p.temperature)
        a == parseInt(p.age)
    IN [id |-> p.patient_id, sys |-> sys, dia |-> dia, t |-> t, a |-> a,
        hasIssue |-> (sys.t = "null" \/ dia.t = "null" \/ t.nan \/ a.nan),
        bp |-> bpScore(sys, dia), temp |-> tempScore(t), age |-> ageScore(a),
        total |-> bpScore(sys, dia) + tempScore(t) + ageScore(a),
        fever |-> (~t.nan /\ GeqTenths(t, 996))]

\* lines 147-148
HasIssue(p) ==
    \/ parseBloodPressure(p.blood_pressure)[1].t = "null"
    \/ parseBloodPressure(p.blood_pressure)[2].t = "null"
    \/ parseFloat(p.temperature).nan
    \/ parseInt(p.age).nan
\* lines 152-155
Total(p) ==
    bpScore(parseBloodPressure(p.blood_pressure)[1], parseBloodPressure(p.blood_pressure)[2])
    + tempScore(parseFloat(p.temperature))
    + ageScore(parseInt(p.age))
IsHighRiskValidOnly(p) == Total(p) >= 4 /\ ~HasIssue(p)
\* line 157
IsHighRisk(p) == Total(p) >= 4
\* line 158
IsFever(p) == ~parseFloat(p.temperature).nan /\ GeqTenths(parseFloat(p.temperature), 996)
IdsOf(s) == [i \in DOMAIN s |-> s[i].patient_id]

\* lines 139-160: patients.forEach pushes each id on the lists it belongs to;
\* lists = <<highRisk, feverPatients, dataIssues>>
Analyze(patients, lists) ==
    <<lists[1] \o IdsOf(SelectSeq(patients, IsHighRisk)),
      lists[2] \o IdsOf(SelectSeq(patients, IsFever)),
      lists[3] \o IdsOf(SelectSeq(patients, HasIssue))>>

\* ------------------------------------------------------------------ errors
\* An error is [status, message]; status 0 stands for err.response undefined.
MsgNoValid == "page contained no valid patient records"
MsgTypeError == "Cannot read properties of null (reading 'data')"
MsgHttp == "Request failed with status code"
MsgNetwork == "Network Error"
Err(st, msg) == [status |-> st, message |-> msg]

\* err.message.includes('no valid')
IncludesNoValid(msg) == msg = MsgNoValid

\* lines 91-115: the try block on a received body; what it throws, or the
\* records it pushes
TryBlock(data) ==
    IF data.t \in {"null", "undefined"}
    THEN [threw |-> TRUE, err |-> Err(0, MsgTypeError), valid |-> <<>>]
    ELSE IF ValidPatients(Normalize(data)) = <<>>
         THEN [threw |-> TRUE, err |-> Err(0, MsgNoValid), valid |-> <<>>]
         ELSE [threw |-> FALSE, err |-> Err(0, ""), valid |-> ValidPatients(Normalize(data))]

\* lines 118-130: the branch of the catch block an error takes
IsRetryStatusOnly500(st) == st = 500
IsRetryStatus(st) == st = 500 \/ st = 503
CatchBranchRetriesAll(err, n) ==
    IF err.status = 429 THEN [kind |-> "rate", wait |-> RateLimitBase + RateLimitStep * n]
    ELSE [kind |-> "retry", wait |-> RetryDelay]
CatchBranch(err, n) ==
    IF err.status = 429 THEN [kind |-> "rate", wait |-> RateLimitBase + RateLimitStep * n]
    ELSE IF IsRetryStatus(err.status) \/ IncludesNoValid(err.message)
         THEN [kind |-> "retry", wait |-> RetryDelay]
    ELSE [kind |-> "abort", wait |-> 0]

\* ------------------------------------------------------------------- state
VARIABLES
    allPatients,    \* fetchPatients: the accumulating record list
    failedPages,    \* fetchPatients: the Set of failed pages, in insertion order
    page,           \* fetchPatients: loop variable (first pass), index into failedPages (recovery)
    pc,             \* position of run / fetchPatients
    fpage,          \* fetchAndStorePage: parameter page
    maxRetries,     \* fetchAndStorePage: parameter maxRetries
    retries,        \* fetchAndStorePage: local retries
    fpc,            \* position of fetchAndStorePage
    success,        \* value returned by fetchAndStorePage
    waitTime,       \* delay of the pending setTimeout, 0 when none is pending
    inFlight,       \* number of axios.get requests awaiting their response
    highRisk, feverPatients, dataIssues,   \* the three module-level lists
    posts,          \* number of axios.post calls made
    postResult,     \* "none", "sent", "ok" (resolved) or "failed" (rejected and caught)
    analyzed,       \* number of records analyze has classified
    postInFlight,   \* number of axios.post requests awaiting their response
    attempts,       \* history: requests sent by the current fetchAndStorePage call
    waits,          \* history: timers started by the current fetchAndStorePage call
    allRate,        \* history: every failed attempt of the current call was a 429
    lastResp,       \* res / err of the current loop iteration (NoResp outside one)
    opStart,        \* history: allPatients when the current call started
    firstOk, recoveredOk,   \* history: pages whose call returned true, per pass
    callLog,        \* history: every fetchAndStorePage call made, [page, budget]
    scored          \* history of the classifier harness: the locals analyze computed,
                    \* one entry per record classified

opVars == <<fpage, maxRetries, retries, fpc, success, waitTime, attempts, waits,
            allRate, lastResp, opStart>>
runVars == <<failedPages, page, pc, firstOk, recoveredOk, callLog>>
reportVars == <<highRisk, feverPatients, dataIssues, posts, postInFlight, postResult, analyzed,
               scored>>
vars == <<allPatients, failedPages, page, pc, fpage, maxRetries, retries, fpc,
          success, waitTime, inFlight, highRisk, feverPatients, dataIssues,
          posts, postInFlight, postResult, analyzed, attempts, waits, allRate, lastResp, opStart,
          firstOk, recoveredOk, callLog, scored>>

\* ------------------------------------------------------------------ remote
OkResp(b) == [ok |-> TRUE, body |-> b, err |-> Err(0, "")]
ErrResp(e) == [ok |-> FALSE, body |-> Undefined, err |-> e]
NoResp == [ok |-> FALSE, body |-> Undefined, err |-> Err(0, "none")]

IdA == Str(<<"A">>)
IdB == Str(<<"B">>)
IdZ == Str(<<"Z">>)
NoVital == Null
Rec(id, p) == Patient(id, p, NoVital, NoVital, NoVital)

RECURSIVE SeqsUpTo(_, _)
SeqsUpTo(S, n) ==
    IF n = 0 THEN {<<>>}
    ELSE SeqsUpTo(S, n - 1) \cup
         {Append(s, x) : s \in {q \in SeqsUpTo(S, n - 1) : Len(q) = n - 1}, x \in S}

\* what one response of the unit harness may list as a record
UnitPage == totalPages
Items(p) == {Null, Rec(Null, p), Rec(Undefined, p), Rec(Num(0), p), Rec(Str(<<>>), p),
             Rec(IdA, p), Rec(IdB, p)}
Decoy(p) == <<Rec(IdZ, p)>>
ShapesOf(l, p) ==
    {Body(Arr(l), Undefined), Body(Arr(l), Arr(Decoy(p))),
     Body(Map(l), Undefined), Body(Map(l), Arr(Decoy(p))),
     Body(Undefined, Arr(l)), Body(Null, Arr(l)), Body(Str(<<"x">>), Arr(l)),
     Body(Undefined, Map(l))}
\* an object under data that is not a map of records: one record, a body
\* that holds a record, a record with a record as one of its members
NestedBodies(p) ==
    {Body(Rec(IdA, p), Undefined),
     Body(Body(Rec(IdA, p), Undefined), Undefined),
     Body(Patient(IdA, p, Rec(IdB, p), Null, Null), Arr(Decoy(p)))}
UnitBodies ==
    {Null, Str(<<"o", "k">>), Body(Undefined, Undefined)} \cup NestedBodies(UnitPage) \cup
    UNION {ShapesOf(l, UnitPage) : l \in SeqsUpTo(Items(UnitPage), MaxRecs)}
UnitErrors ==
    {Err(st, MsgHttp) : st \in {401, 404, 429, 500, 502, 503, 504}} \cup {Err(0, MsgNetwork)}

\* the pages as the remote holds them during a run: the three shapes,
\* records without an id, an id on two pages and an id twice on one page
PageBody ==
    [p \in 1..totalPages |->
        CASE p = 1 -> Body(Arr(<<
                 Patient(IdA, 1, Str(<<"1","5","0","/","9","5">>), Str(<<"1","0","1",".","2">>), Str(<<"7","0">>)),
                 Patient(IdB, 1, Str(<<"1","2","0","/","7","0">>), Str(<<"a","b","c">>), Str(<<"5","0">>))>>),
                 Undefined)
          [] p = 2 -> Body(Map(<<
                 Patient(Str(<<"C">>), 2, Null, Str(<<"9","9",".","7">>), Str(<<"3","0">>)),
                 Rec(Null, 2)>>), Undefined)
          [] p = 3 -> Body(Undefined, Arr(<<
                 Patient(Str(<<"D">>), 3, Str(<<"1","1","0","/","7","0">>), NumDec(986, 1), Num(45)),
                 Null>>))
          [] p = 4 -> Body(Arr(<<
                 Patient(IdA, 4, Str(<<"1","3","5","/","8","5">>), NumDec(995, 1), Num(66)),
                 Patient(Str(<<"E">>), 4, Str(<<"1","2","0","/">>), Str(<<"1","0","0",".","9","5">>), Str(<<"4","0"," ","y">>))>>),
                 Undefined)
          [] p = 5 -> Body(Arr(<<
                 Patient(Str(<<"F">>), 5, Str(<<"1","4","0","/","9","0">>), Str(<<"9","8">>), Str(<<"6","5">>)),
                 Patient(Str(<<"F">>), 5, Str(<<"1","4","0","/","9","0">>), Str(<<"9","8">>), Str(<<"6","5">>))>>),
                 Undefined)
          [] p = 6 -> Body(Arr(<<
                 Rec(Num(0), 6),
                 Patient(Num(6), 6, Str(<<"N","/","A">>), Null, Undefined)>>), Undefined)
          [] p = 7 -> Body(Null, Arr(<<
                 Patient(Str(<<"G">>), 7, Str(<<"1","2","5","/","7","9">>), Str(<<"1","0","1">>), Num(80))>>))
          [] p = 8 -> Body(Map(<<
                 Patient(Str(<<"H">>), 8, Num(120), Str(<<"9","9",".","6">>), Str(<<"-","1">>))>>),
                 Arr(Decoy(8)))
          [] p = 9 -> Body(Arr(<<
                 Rec(Str(<<>>), 9),
                 Patient(Str(<<"I">>), 9, Str(<<"1","5","0","/","8","5">>), Str(<<>>), Str(<<"6","6">>))>>),
                 Undefined)
          [] OTHER -> Body(Arr(<<
                 Patient(Str(<<"J">>), p, Str(<<"1","1","9","/","7","9">>), Str(<<"9","9",".","5","5">>), Str(<<"3","9">>))>>),
                 Undefined)]

\* a response of a run that is not the page as the remote holds it
BadBodies == {Null, Body(Arr(<<>>), Undefined)}
RunErrors == {Err(st, MsgHttp) : st \in {404, 429, 503}}

RunBodies == [p \in 1..totalPages |-> {PageBody[p]} \cup BadBodies]
\* line 113: allPatients.push(...validPatients)
PushReplaces(list, items) == items
PushFront(list, items) == items \o list
Push(list, items) == list \o items

\* line 85: while (retries < maxRetries)
LoopTestOffByOne(r, m) == r <= m
LoopTest(r, m) == r < m

\* lines 83-84: the call
StartCall(p, budget) ==
    /\ fpage' = p
    /\ maxRetries' = budget
    /\ retries' = 0
    /\ fpc' = "loop"
    /\ success' = FALSE
    /\ waitTime' = 0
    /\ attempts' = 0
    /\ waits' = 0
    /\ allRate' = TRUE
    /\ lastResp' = NoResp
    /\ opStart' = allPatients

\* lines 85-90: the loop test holds and the request is sent
SendRequest ==
    /\ fpc = "loop"
    /\ LoopTest(retries, maxRetries)
    /\ fpc' = "await_get"
    /\ inFlight' = inFlight + 1
    /\ attempts' = attempts + 1
    /\ UNCHANGED <<allPatients, runVars, reportVars, fpage, maxRetries,
                   retries, success, waitTime, waits, allRate, lastResp, opStart>>

\* lines 85, 136: the loop test fails
ReturnExhausted ==
    /\ fpc = "loop"
    /\ ~LoopTest(retries, maxRetries)
    /\ fpc' = "returned"
    /\ success' = FALSE
    /\ UNCHANGED <<allPatients, runVars, reportVars, inFlight, fpage,
                   maxRetries, retries, waitTime, attempts, waits, allRate,
                   lastResp, opStart>>

\* lines 91-133: the rest of the loop body once axios.get has settled with
\* resp, up to the next await or return
Settle(resp) ==
    LET r == IF resp.ok THEN TryBlock(resp.body)
             ELSE [threw |-> TRUE, err |-> resp.err, valid |-> <<>>]
        b == CatchBranch(r.err, retries)
    IN  /\ fpc = "await_get"
        /\ inFlight > 0
        /\ inFlight' = inFlight - 1
        /\ lastResp' = resp
        /\ IF ~r.threw
           THEN /\ allPatients' = Push(allPatients, r.valid)
                /\ fpc' = "returned"
                /\ success' = TRUE
                /\ UNCHANGED <<waitTime, waits, allRate>>
           ELSE IF b.kind = "abort"
           THEN /\ fpc' = "returned"
                /\ success' = FALSE
                /\ allRate' = FALSE
                /\ UNCHANGED <<allPatients, waitTime, waits>>
           ELSE /\ fpc' = "await_timer"
                /\ waitTime' = b.wait
                /\ waits' = waits + 1
                /\ allRate' = (allRate /\ r.err.status = 429)
                /\ UNCHANGED <<allPatients, success>>
        /\ UNCHANGED <<runVars, reportVars, fpage, maxRetries, retries, attempts, opStart>>

\* whether receiving resp now makes the current call return false
EndsCall(resp) ==
    LET r == IF resp.ok THEN TryBlock(resp.body)
             ELSE [threw |-> TRUE, err |-> resp.err, valid |-> <<>>]
    IN r.threw /\ (CatchBranch(r.err, retries).kind = "abort"
                    \/ retries + 1 >= maxRetries)
\* the remote answers as it likes, but makes at most MaxFailedPages calls of the
\* first pass fail
MayFailCall == pc \in {"unit", "recovery_await"} \/ Len(failedPages) < MaxFailedPages
ServedBodies ==
    IF pc = "unit" THEN UnitBodies
    ELSE {b \in RunBodies[fpage] : MayFailCall \/ ~EndsCall(OkResp(b))}
ServedErrors ==
    IF pc = "unit" THEN UnitErrors
    ELSE {e \in RunErrors : MayFailCall \/ ~EndsCall(ErrResp(e))}

\* the remote answers 2xx with a body
ResponseOk ==
    /\ fpc = "await_get"
    /\ \E b \in ServedBodies :
        Settle(OkResp(b))

\* axios.get rejects
ResponseError ==
    /\ fpc = "await_get"
    /\ \E e \in ServedErrors :
        Settle(ErrResp(e))

\* line 132: retries++
IncRetriesForgotten(r) == r
IncRetries(r) == r + 1

\* lines 123/126, 132: the timer fires, retries++
TimerFires ==
    /\ fpc = "await_timer"
    /\ retries' = IncRetries(retries)
    /\ waitTime' = 0
    /\ fpc' = "loop"
    /\ lastResp' = NoResp
    /\ UNCHANGED <<allPatients, runVars, reportVars, inFlight, fpage,
                   maxRetries, success, attempts, waits, allRate, opStart>>

\* the locals of a finished call are gone
ClearCall ==
    /\ fpc' = "idle"
    /\ fpage' = 0 /\ maxRetries' = 0 /\ retries' = 0
    /\ success' = FALSE /\ waitTime' = 0
    /\ attempts' = 0 /\ waits' = 0 /\ allRate' = TRUE
    /\ lastResp' = NoResp
    /\ opStart' = <<>>

SetAddFront(set, x) == IF x \in Range(set) THEN set ELSE <<x>> \o set
\* failedPages.add(page): a Set keeps insertion order and no duplicates
SetAdd(set, x) == IF x \in Range(set) THEN set ELSE Append(set, x)

\* ----------------------------------------------------------- fetchPatients
\* await fetchAndStorePage(...): the caller resumes once the call has returned
CallReturnedNoAwait == TRUE
CallReturned == fpc = "returned"

\* lines 61-62: first pass, the call for the next page
FirstPassCall ==
    /\ pc = "first"
    /\ page <= totalPages
    /\ StartCall(page, DefaultRetries)
    /\ callLog' = Append(callLog, [page |-> page, budget |-> DefaultRetries])
    /\ pc' = "first_await"
    /\ UNCHANGED <<allPatients, failedPages, page, firstOk, recoveredOk,
                   reportVars, inFlight>>

FirstPassResumeAddsAll ==
    /\ pc = "first_await"
    /\ CallReturned
    /\ failedPages' = SetAdd(failedPages, page)
    /\ firstOk' = IF success THEN firstOk \cup {page} ELSE firstOk
    /\ page' = page + 1
    /\ pc' = "first"
    /\ ClearCall
    /\ UNCHANGED <<allPatients, recoveredOk, callLog, reportVars, inFlight>>
\* lines 62-63, 61: the call returned; record a failure, page++
FirstPassResume ==
    /\ pc = "first_await"
    /\ CallReturned
    /\ failedPages' = IF ~success THEN SetAdd(failedPages, page) ELSE failedPages
    /\ firstOk' = IF success THEN firstOk \cup {page} ELSE firstOk
    /\ page' = page + 1
    /\ pc' = "first"
    /\ ClearCall
    /\ UNCHANGED <<allPatients, recoveredOk, callLog, reportVars, inFlight>>

\* lines 61, 67-69: the first loop ends; page becomes the position in failedPages
FirstPassDone ==
    /\ pc = "first"
    /\ ~(page <= totalPages)
    /\ pc' = "recovery"
    /\ page' = 1
    /\ UNCHANGED <<allPatients, failedPages, firstOk, recoveredOk, callLog,
                   reportVars, opVars, inFlight>>

\* lines 69-70: recovery pass, the call for the next failed page
RecoveryCall ==
    /\ pc = "recovery"
    /\ page <= Len(failedPages)
    /\ StartCall(failedPages[page], RecoveryRetries)
    /\ callLog' = Append(callLog, [page |-> failedPages[page], budget |-> RecoveryRetries])
    /\ pc' = "recovery_await"
    /\ UNCHANGED <<allPatients, failedPages, page, firstOk, recoveredOk,
                   reportVars, inFlight>>

\* lines 70-73: the call returned; next failed page
RecoveryResume ==
    /\ pc = "recovery_await"
    /\ CallReturned
    /\ recoveredOk' = IF success THEN recoveredOk \cup {failedPages[page]} ELSE recoveredOk
    /\ page' = page + 1
    /\ pc' = "recovery"
    /\ ClearCall
    /\ UNCHANGED <<allPatients, failedPages, firstOk, callLog,
                   reportVars, inFlight>>

\* lines 77-78, 185-186: fetchPatients returns allPatients to run
FetchPatientsReturn ==
    /\ pc = "recovery"
    /\ ~(page <= Len(failedPages))
    /\ pc' = "fetched"
    /\ UNCHANGED <<allPatients, failedPages, page, firstOk, recoveredOk, callLog,
                   reportVars, opVars, inFlight>>

\* ------------------------------------------------------------ run, submit
\* lines 139-160: analyze(patients) on the module-level lists
AnalyzeCall(patients) ==
    /\ \E r \in {Analyze(patients, <<highRisk, feverPatients, dataIssues>>)} :
          /\ highRisk' = r[1]
          /\ feverPatients' = r[2]
          /\ dataIssues' = r[3]
    /\ analyzed' = analyzed + Len(patients)

\* lines 188-192: analyze(patients)
RunAnalyze ==
    /\ pc = "fetched"
    /\ AnalyzeCall(allPatients)
    /\ pc' = "analyzed"
    /\ UNCHANGED <<allPatients, failedPages, page, firstOk, recoveredOk, callLog, opVars,
                   inFlight, posts, postInFlight, postResult, scored>>

\* lines 194, 162-175: submit() sends the POST
SubmitSend ==
    /\ pc = "analyzed"
    /\ posts' = posts + 1
    /\ postInFlight' = postInFlight + 1
    /\ postResult' = "sent"
    /\ pc' = "await_post"
    /\ UNCHANGED <<allPatients, failedPages, page, firstOk, recoveredOk, callLog, opVars,
                   inFlight, highRisk, feverPatients, dataIssues, analyzed, scored>>

\* lines 177-179, 195: where run continues after the catch block of submit
AfterSubmitCatchRetries == "analyzed"
AfterSubmitCatch == "done"

\* lines 176, 195: the POST resolves
PostResolves ==
    /\ pc = "await_post"
    /\ postInFlight > 0
    /\ postInFlight' = postInFlight - 1
    /\ postResult' = "ok"
    /\ pc' = "done"
    /\ UNCHANGED <<allPatients, failedPages, page, firstOk, recoveredOk, callLog, opVars,
                   inFlight, highRisk, feverPatients, dataIssues, analyzed, scored,
                   posts>>

\* lines 177-179, 195: the POST rejects, the catch block logs it
PostRejects ==
    /\ pc = "await_post"
    /\ postInFlight > 0
    /\ postInFlight' = postInFlight - 1
    /\ postResult' = "failed"
    /\ pc' = AfterSubmitCatch
    /\ UNCHANGED <<allPatients, failedPages, page, firstOk, recoveredOk, callLog, opVars,
                   inFlight, highRisk, feverPatients, dataIssues, analyzed, scored,
                   posts>>

\* lines 182-197 up to the first call
Init ==
    /\ pc = "first"
    /\ allPatients = <<>>
    /\ failedPages = <<>>
    /\ page = 1
    /\ fpage = 0 /\ maxRetries = 0 /\ retries = 0
    /\ fpc = "idle"
    /\ success = FALSE
    /\ waitTime = 0
    /\ inFlight = 0
    /\ highRisk = <<>> /\ feverPatients = <<>> /\ dataIssues = <<>>
    /\ posts = 0 /\ postInFlight = 0 /\ postResult = "none" /\ analyzed = 0
    /\ attempts = 0 /\ waits = 0 /\ allRate = TRUE
    /\ lastResp = NoResp
    /\ opStart = <<>>
    /\ firstOk = {} /\ recoveredOk = {}
    /\ callLog = <<>> /\ scored = <<>>

Next ==
    \/ FirstPassCall
    \/ FirstPassResume
    \/ FirstPassDone
    \/ RecoveryCall
    \/ RecoveryResume
    \/ FetchPatientsReturn
    \/ SendRequest
    \/ ReturnExhausted
    \/ ResponseOk
    \/ ResponseError
    \/ TimerFires
    \/ RunAnalyze
    \/ SubmitSend
    \/ PostResolves
    \/ PostRejects

Spec == Init /\ [][Next]_vars

\* every ready continuation, timer and settled request is eventually run
FairSpec == Spec /\ WF_vars(Next)

\* ------------------------------------------- unit harness of the fetcher
FetchInit ==
    /\ pc = "unit"
    /\ allPatients \in {<<>>, <<Rec(IdZ, 0)>>}
    /\ failedPages = <<>>
    /\ page = 0
    /\ fpage = UnitPage
    /\ maxRetries \in {DefaultRetries, RecoveryRetries}
    /\ retries = 0
    /\ fpc = "loop"
    /\ success = FALSE
    /\ waitTime = 0
    /\ inFlight = 0
    /\ highRisk = <<>> /\ feverPatients = <<>> /\ dataIssues = <<>>
    /\ posts = 0 /\ postInFlight = 0 /\ postResult = "none" /\ analyzed = 0
    /\ attempts = 0 /\ waits = 0 /\ allRate = TRUE
    /\ lastResp = NoResp
    /\ opStart = allPatients
    /\ firstOk = {} /\ recoveredOk = {}
    /\ callLog = <<>> /\ scored = <<>>

FetchNext ==
    \/ SendRequest
    \/ ReturnExhausted
    \/ ResponseOk
    \/ ResponseError
    \/ TimerFires

FetchSpec == FetchInit /\ [][FetchNext]_vars

\* ---------------------------------------- unit harness of the classifier
Slash(a, b) == Str(a \o <<"/">> \o b)

SysSamples == {0, 119, 120, 129, 130, 139, 140, 150}
DiaSamples == {0, 79, 80, 85, 89, 90}
\* blood_pressure values: well-formed readings around every threshold, ...
BpReadings == {Slash(DigitsOf(sy), DigitsOf(di)) : sy \in SysSamples, di \in DiaSamples}
\* ... readings with a missing or non-digit side, with no or several
\* slashes, and values that are not strings
BpOdd ==
    {Slash(<<"0", "0", "7">>, <<"0", "8", "0">>),
     Slash(<<"1", "2", "0">>, <<"x">>), Slash(<<"x">>, <<"8", "0">>),
     Slash(<<"1", "2", "0">>, <<>>), Slash(<<>>, <<"8", "0">>), Slash(<<>>, <<>>),
     Slash(<<" ", "1", "2", "0">>, <<"8", "0">>), Slash(<<"1", "2", "0">>, <<"8", "0", "\n">>),
     Slash(<<"1", "5", "0">>, <<"9", "5", ".", "5">>), Slash(<<"-", "1">>, <<"8", "0">>),
     Str(<<"1", "2", "0">>), Str(<<"N", "A">>), Str(<<>>),
     Slash(<<"1", "2", "0">>, <<"8", "0", "/", "7", "0">>),
     Slash(<<"1", "2", "0">>, <<"8", "0", "/">>),
     Slash(<<"1", "5", "0">>, <<"/", "9", "5">>),
     Slash(<<>>, <<"8", "0", "/", "7", "0">>),
     Null, Undefined, Num(120), Num(0), Arr(<<>>)}
BpSamples == BpReadings \cup BpOdd

\* temperature values: strings and numbers around the thresholds, also with
\* two fractional digits, values that do not parse, leading white space,
\* the literal Infinity and arrays
TempSamples ==
    {Str(<<"9", "8", ".", "6">>), Str(<<"9", "9", ".", "5">>), Str(<<"9", "9", ".", "5", "5">>),
     Str(<<"9", "9", ".", "6">>), Str(<<"1", "0", "0", ".", "9">>),
     Str(<<"1", "0", "0", ".", "9", "5">>), Str(<<"1", "0", "1", ".", "0">>),
     Str(<<"1", "0", "1">>), Str(<<"1", "0", "3", ".", "2", "5">>),
     Str(<<"9", "8", ".", "6", "F">>), Str(<<"1", "e", "2">>), Str(<<"-", "1">>),
     Str(<<"a", "b", "c">>), Str(<<>>), Str(<<"T", "E", "M", "P">>),
     NumDec(986, 1), NumDec(996, 1), NumDec(9959, 2), NumDec(10095, 2), Num(101), Num(0),
     Null, Undefined,
     Str(<<"\r", "9", "9", ".", "6">>), Str(<<"U+00A0", "1", "0", "1">>),
     Str(InfinityChars), Str(<<"-">> \o InfinityChars),
     Arr(<<Str(<<"9", "8", ".", "6">>)>>), Arr(<<Num(101), Num(2)>>), Arr(<<Null>>)}

\* age values
AgeSamples ==
    {Str(<<"3", "9">>), Str(<<"4", "0">>), Str(<<"6", "5">>), Str(<<"6", "6">>),
     Str(<<"0">>), Str(<<"-", "1">>), Str(<<"4", "0", " ", "y">>), Str(<<"6", "5", ".", "9">>),
     Str(<<"0", "x", "4", "2">>), Str(<<"a", "b", "c">>), Str(<<>>),
     Num(45), Num(70), NumDec(659, 1), Null, Undefined,
     Str(<<"\f", "4", "5">>), Str(InfinityChars), NumDec(5, 7), NumDec(399, 1),
     Arr(<<Num(70)>>), Arr(<<Str(<<"9", "8", ".", "6">>)>>)}

IdP == Str(<<"P">>)
\* records the collection can hold that classify differently: high-risk with
\* a data-quality issue, fever only, none of the three, nothing valid, an
\* invalid temperature only
SampleRecords ==
    {Patient(Str(<<"Q", "1">>), 0, Slash(<<"1", "5", "0">>, <<"9", "5">>), Str(<<"a", "b", "c">>), Str(<<"7", "0">>)),
     Patient(Str(<<"Q", "2">>), 0, Slash(<<"1", "1", "0">>, <<"7", "0">>), Str(<<"9", "9", ".", "6">>), Num(30)),
     Patient(Str(<<"Q", "3">>), 0, Slash(<<"1", "1", "0">>, <<"7", "0">>), NumDec(986, 1), Num(30)),
     Patient(Str(<<"Q", "4">>), 0, Null, Null, Null),
     Patient(Str(<<"Q", "5">>), 0, Slash(<<"1", "2", "0">>, <<"7", "0">>), Str(<<"a", "b", "c">>), Str(<<"5", "0">>))}
\* the lists analyze is given: every single record of the samples, and short
\* lists of the sample records (a record may occur twice)
ClassifyInputs ==
    {<<Patient(IdP, 0, bp, temp, age)>> : bp \in BpSamples, temp \in TempSamples, age \in AgeSamples}
    \cup SeqsUpTo(SampleRecords, MaxRecs)

ClassifyInit ==
    /\ pc = "classify"
    /\ allPatients \in ClassifyInputs
    /\ failedPages = <<>>
    /\ page = 0
    /\ fpage = 0 /\ maxRetries = 0 /\ retries = 0
    /\ fpc = "idle"
    /\ success = FALSE
    /\ waitTime = 0
    /\ inFlight = 0
    /\ highRisk = <<>> /\ feverPatients = <<>> /\ dataIssues = <<>>
    /\ posts = 0 /\ postInFlight = 0 /\ postResult = "none" /\ analyzed = 0
    /\ attempts = 0 /\ waits = 0 /\ allRate = TRUE
    /\ lastResp = NoResp
    /\ opStart = <<>>
    /\ firstOk = {} /\ recoveredOk = {}
    /\ callLog = <<>> /\ scored = <<>>

\* lines 139-160: analyze(patients), called on the same list a first and a
\* second time
UnitAnalyze ==
    /\ pc \in {"classify", "classified"}
    /\ AnalyzeCall(allPatients)
    /\ scored' = scored \o [i \in DOMAIN allPatients |-> Classify(allPatients[i])]
    /\ pc' = IF pc = "classify" THEN "classified" ELSE "reclassified"
    /\ UNCHANGED <<allPatients, failedPages, page, firstOk, recoveredOk, callLog, opVars,
                   inFlight, posts, postInFlight, postResult>>

ClassifyNext == UnitAnalyze

ClassifySpec == ClassifyInit /\ [][ClassifyNext]_vars

\* ------------------------------------------------ the claims' vocabulary
\* the record list of a body under the three known shapes, unfiltered
KnownShape(b) ==
    IsBody(b) /\ (IsArray(b.data) \/ (b.data.t = "object") \/ IsArray(b.patients))
ShapeList(b) ==
    IF ~IsBody(b) THEN <<>>
    ELSE IF IsArray(b.data) THEN b.data.v
    ELSE IF b.data.t = "object" THEN ObjectValues(b.data)
    ELSE IF IsArray(b.patients) THEN b.patients.v
    ELSE <<>>
NonNullId(p) == IsPatient(p) /\ p.patient_id.t \notin {"null", "undefined"}
TruthyId(p) == IsPatient(p) /\ NonNullId(p) /\ p.patient_id # Num(0) /\ p.patient_id # Str(<<>>)
Keep(s, P(_)) == SelectSeq(s, P)
Received == lastResp # NoResp
GoodPage(b) == KnownShape(b) /\ Keep(ShapeList(b), TruthyId) # <<>>

\* ---------------------------------------------------------------- C1
\* C1: after B-1 rate-limit answers and then a good page the call has returned
\* true with exactly B attempts; after B rate-limit answers it makes no further
\* attempt and returns false with exactly B attempts; never more than B attempts.
C1_RateLimitBudget ==
    /\ attempts <= maxRetries
    /\ (allRate /\ retries = maxRetries - 1 /\ Received /\ lastResp.ok
            /\ GoodPage(lastResp.body))
        => (fpc = "returned" /\ success /\ attempts = maxRetries)
    /\ (allRate /\ retries = maxRetries - 1 /\ Received /\ ~lastResp.ok
            /\ lastResp.err.status = 429)
        => (fpc = "await_timer" /\ attempts = maxRetries)
    /\ (allRate /\ retries = maxRetries)
        => /\ attempts = maxRetries
           /\ fpc \in {"loop", "returned"}
           /\ ~ENABLED SendRequest
           /\ (fpc = "returned" => ~success)
C1_Witness ==
    /\ fpc = "returned" /\ success /\ allRate
    /\ maxRetries = RecoveryRetries
    /\ retries = maxRetries - 1 /\ attempts = maxRetries

\* ---------------------------------------------------------------- C2
TransientAsClaimed(resp) ==
    \/ ~resp.ok /\ (resp.err.status = 429 \/ resp.err.status \in 500..599)
    \/ resp.ok /\ KnownShape(resp.body) /\ Keep(ShapeList(resp.body), NonNullId) = <<>>
TransientAsCoded(resp) ==
    \/ ~resp.ok /\ resp.err.status \in {429, 500, 503}
    \/ resp.ok /\ KnownShape(resp.body) /\ Keep(ShapeList(resp.body), NonNullId) = <<>>
RetryAccounting(T(_)) ==
    /\ (Received /\ T(lastResp))
        => /\ fpc = "await_timer" /\ waitTime > 0
           /\ waits = retries + 1 /\ attempts = retries + 1
    /\ fpc = "loop" => (retries = attempts /\ retries = waits)
    /\ (fpc = "loop" /\ attempts < maxRetries) => ENABLED SendRequest
\* C2 as stated: a 429, any 5xx, or an empty valid-record list is followed by
\* a wait and, below the budget, another attempt; each costs one unit.
C2_Original == RetryAccounting(TransientAsClaimed)
\* C2 amended: the same for a 429, a 500 or 503, or an empty valid-record list.
C2_Retry500And503 == RetryAccounting(TransientAsCoded)
C2_Witness ==
    /\ Received /\ ~lastResp.ok /\ lastResp.err.status = 503
    /\ fpc = "await_timer" /\ waitTime = RetryDelay
    /\ ~allRate /\ retries = 2

\* ---------------------------------------------------------------- C3
Unexpected(resp) ==
    \/ ~resp.ok /\ resp.err.status \notin {429, 500, 503}
    \/ resp.ok /\ resp.body.t \in {"null", "undefined"}
\* C3: an error that is neither a rate limit, a retried server error nor an
\* empty valid-record list ends the call at once: false is returned, no timer
\* is started and no request follows, whatever is left of the budget.
C3_AbortImmediately ==
    (Received /\ Unexpected(lastResp))
        => /\ fpc = "returned" /\ ~success
           /\ waitTime = 0 /\ waits = retries /\ attempts = retries + 1
           /\ ~ENABLED SendRequest /\ ~ENABLED TimerFires
C3_Witness ==
    /\ Received /\ ~lastResp.ok /\ lastResp.err.status = 404
    /\ fpc = "returned" /\ retries = 0 /\ maxRetries = RecoveryRetries

\* ---------------------------------------------------------------- C4
\* C4 as stated: a 2xx body of no known shape (null and non-object bodies
\* included) is retried after the fixed delay and never aborts the page.
C4_Original ==
    (Received /\ lastResp.ok /\ ~KnownShape(lastResp.body))
        => (fpc = "await_timer" /\ waitTime = RetryDelay)

\* ---------------------------------------------------------------- C5
AddedExactly(P(_)) ==
    (fpc = "returned" /\ success)
        => /\ Received /\ lastResp.ok
           /\ allPatients = opStart \o Keep(ShapeList(lastResp.body), P)
           /\ Len(allPatients) > Len(opStart)
\* C5 as stated: a successful call adds exactly the records of the response
\* whose patient_id is non-null (0 and "" included), in order, at least one.
C5_Original == AddedExactly(NonNullId)
\* C5 amended: it adds exactly the records whose patient_id is truthy (not
\* null, missing, 0 or ""), in order, at least one.
C5_AddsTruthyIds == AddedExactly(TruthyId)
C5_Witness ==
    /\ fpc = "returned" /\ success
    /\ lastResp.body = Body(Map(<<Rec(Num(0), UnitPage), Rec(IdB, UnitPage)>>), Undefined)
    /\ opStart # <<>>

\* ---------------------------------------------------------------- C6
Returned == pc \in {"fetched", "analyzed", "await_post", "done"}
PageRecords(p) == Keep(ShapeList(PageBody[p]), TruthyId)
FromPage(list, p) == SelectSeq(list, LAMBDA r : r.page = p)
\* C6: what fetchPatients returns holds, for every page that succeeded in
\* either pass, all its records, and no record of a page that failed in both;
\* every page is accounted for and the return is reached whatever was lost.
C6_CollectedPages ==
    /\ Returned =>
        /\ \A p \in 1..totalPages :
              FromPage(allPatients, p) =
                  IF p \in firstOk \cup recoveredOk THEN PageRecords(p) ELSE <<>>
        /\ firstOk \cup Range(failedPages) = 1..totalPages
        /\ recoveredOk \subseteq Range(failedPages)
    /\ (pc = "recovery" /\ page > Len(failedPages)) => ENABLED FetchPatientsReturn
C6_Witness ==
    /\ pc = "fetched"
    /\ failedPages = <<3, 7>>
    /\ recoveredOk = {7}
    /\ FromPage(allPatients, 7) # <<>> /\ FromPage(allPatients, 3) = <<>>

\* ---------------------------------------------------------------- C7
\* C7 as stated: no two records of the returned list share a patient_id.
C7_Original ==
    Returned =>
        \A i, j \in DOMAIN allPatients :
            i # j => allPatients[i].patient_id # allPatients[j].patient_id

\* ---------------------------------------------------------------- C8
\* C8: at most one request or timer is pending at any time, it belongs to the
\* one call the orchestrator is awaiting, and a call exists only while the
\* orchestrator awaits it.
C8_Sequential ==
    /\ inFlight + postInFlight + (IF waitTime > 0 THEN 1 ELSE 0) <= 1
    /\ inFlight > 0 => fpc = "await_get"
    /\ waitTime > 0 => fpc = "await_timer"
    /\ fpc = "await_get" => inFlight = 1
    /\ fpc # "idle" => pc \in {"first_await", "recovery_await"}
    /\ postInFlight > 0 => (pc = "await_post" /\ fpc = "idle")
C8_Witness ==
    /\ inFlight = 1
    /\ pc = "recovery_await"
    /\ retries = 3
    /\ firstOk # {}

\* ---------------------------------------------------------------- C9
\* C9: no call makes more attempts than its budget, and every run reaches its
\* end: both passes over, every collected record classified, the one
\* submission settled (resolved or rejected), nothing pending.
C9_RunTerminates ==
    /\ [](attempts <= maxRetries)
    /\ <>[](/\ pc = "done"
            /\ postResult \in {"ok", "failed"}
            /\ analyzed = Len(allPatients)
            /\ fpc = "idle" /\ inFlight = 0 /\ postInFlight = 0)
C9_Witness ==
    /\ pc = "done"
    /\ postResult = "failed"
    /\ Len(failedPages) = 2
    /\ recoveredOk = {}

\* ---------------------------------------------------------------- C10
\* C10: the POST is sent once, after both passes and the classification of
\* every collected record; once it is sent the run goes to its end with the
\* three lists and the count of POSTs unchanged, whether it resolves or rejects.
C10_SubmitOnce ==
    [][/\ posts' \in {posts, posts + 1}
       /\ posts' # posts =>
            /\ posts = 0
            /\ pc = "analyzed" /\ analyzed = Len(allPatients)
            /\ fpc = "idle" /\ inFlight = 0 /\ page > Len(failedPages)
       /\ pc = "await_post" =>
            /\ pc' = "done"
            /\ UNCHANGED <<highRisk, feverPatients, dataIssues, posts, allPatients>>
       /\ pc' = "done" => posts' = 1]_vars
C10_Witness ==
    /\ pc = "done"
    /\ postResult = "failed"
    /\ posts = 1
    /\ highRisk # <<>> /\ feverPatients # <<>> /\ dataIssues # <<>>

\* ------------------------------------- the claims' vocabulary: classifier
\* analyze has classified the list once
ClassifiedOnce == pc = "classified" /\ Len(scored) = Len(allPatients)
\* a parsed vital is invalid
InvalidInt(x) == x.t = "null"
InvalidNum(d) == d.nan
\* d >= n / 10^k and d <= n / 10^k for a parsed number d
Ge(d, n, k) == ~d.nan /\ (IF d.inf # 0 THEN d.inf > 0 ELSE d.m * Pow10(k) >= n * Pow10(d.e))
Le(d, n, k) == ~d.nan /\ (IF d.inf # 0 THEN d.inf < 0 ELSE d.m * Pow10(k) <= n * Pow10(d.e))
\* the ids of the records whose classification satisfies P, in list order
IdsWhere(P(_)) ==
    LET idx == SelectSeq([i \in 1..Len(allPatients) |-> i], LAMBDA i : P(scored[i]))
    IN [k \in DOMAIN idx |-> allPatients[idx[k]].patient_id]
AnyInvalid(e) == InvalidInt(e.sys) \/ InvalidInt(e.dia) \/ InvalidNum(e.t) \/ InvalidNum(e.a)
FeverAsClaimed(e) == ~InvalidNum(e.t) /\ Ge(e.t, 996, 1)
SumAtLeast4(e) == e.bp + e.temp + e.age >= 4

\* ---------------------------------------------------------------- C11
\* C11: after one classification the data-quality list holds exactly the ids
\* of the records with an invalid systolic, diastolic, temperature or age, the
\* fever list those with a valid temperature >= 99.6, the high-risk list those
\* whose three sub-scores sum to 4 or more; an invalid field scores 0 and the
\* record is still scored; the three memberships are independent.
C11_Memberships ==
    ClassifiedOnce =>
        /\ dataIssues = IdsWhere(AnyInvalid)
        /\ feverPatients = IdsWhere(FeverAsClaimed)
        /\ highRisk = IdsWhere(SumAtLeast4)
        /\ \A i \in DOMAIN scored :
            LET e == scored[i] IN
            /\ e.total = e.bp + e.temp + e.age
            /\ (InvalidInt(e.sys) \/ InvalidInt(e.dia)) => e.bp = 0
            /\ InvalidNum(e.t) => e.temp = 0
            /\ InvalidNum(e.a) => e.age = 0
            /\ (/\ allPatients[i].blood_pressure = Slash(<<"1", "2", "0">>, <<"7", "0">>)
                /\ allPatients[i].temperature = Str(<<"a", "b", "c">>)
                /\ allPatients[i].age = Str(<<"5", "0">>))
               => (e.total = 3 /\ ~SumAtLeast4(e) /\ ~FeverAsClaimed(e) /\ AnyInvalid(e))
C11_Witness ==
    /\ pc = "classified"
    /\ Len(allPatients) = 2
    /\ highRisk = <<Str(<<"Q", "1">>)>>
    /\ dataIssues = <<Str(<<"Q", "1">>), Str(<<"Q", "5">>)>>
    /\ feverPatients = <<>>

\* ---------------------------------------------------------------- C12
\* the table of the blood-pressure sub-score, rows tried from the top
BpTable(sy, di) ==
    IF InvalidInt(sy) \/ InvalidInt(di) THEN 0
    ELSE IF sy.v < 120 /\ di.v < 80 THEN 1
    ELSE IF sy.v \in 120..129 /\ di.v < 80 THEN 2
    ELSE IF sy.v \in 130..139 \/ di.v \in 80..89 THEN 3
    ELSE IF sy.v >= 140 \/ di.v >= 90 THEN 4
    ELSE 0
\* C12: the blood-pressure sub-score of every classified record is the first
\* matching row of the table for its parsed systolic and diastolic values; a
\* reading matching the rows for 3 and for 4 (150/85) scores 3.
C12_BpFirstMatch ==
    \A i \in DOMAIN scored :
        LET e == scored[i] IN
        /\ e.bp = BpTable(e.sys, e.dia)
        /\ (e.sys = Num(150) /\ e.dia = Num(85)) => e.bp = 3
C12_Witness ==
    /\ pc = "classified"
    /\ Len(allPatients) = 1
    /\ allPatients[1].blood_pressure = Slash(<<"1", "5", "0">>, <<"8", "5">>)
    /\ scored[1].sys = Num(150) /\ scored[1].dia = Num(85)
    /\ scored[1].bp = 3

\* ---------------------------------------------------------------- C13
\* C13: for every classified record the blood-pressure sub-score is in 0..4,
\* the temperature sub-score in 0..2, the age sub-score is 1 for a valid age
\* <= 65, 2 for a valid age > 65 and 0 only for an invalid age, the total is
\* the sum of the three (0..8) and the id is on the high-risk list iff the
\* total is 4 or more.
C13_ScoreRanges ==
    /\ \A i \in DOMAIN scored :
        LET e == scored[i] IN
        /\ e.bp \in 0..4
        /\ e.temp \in 0..2
        /\ e.age = (IF InvalidNum(e.a) THEN 0 ELSE IF e.a.m <= 65 THEN 1 ELSE 2)
        /\ e.total = e.bp + e.temp + e.age
        /\ e.total \in 0..8
    /\ ClassifiedOnce =>
        highRisk = IdsWhere(LAMBDA e : e.total >= 4)
C13_Witness ==
    /\ pc = "classified"
    /\ Len(allPatients) = 1
    /\ scored[1].bp = 4 /\ scored[1].temp = 2 /\ scored[1].age = 2
    /\ scored[1].total = 8
    /\ highRisk = <<IdP>>

\* ---------------------------------------------------------------- C14
\* the claim's reading of a blood_pressure value
CountSlash(cs) == Cardinality({i \in DOMAIN cs : cs[i] = "/"})
DigitOnly(cs) ==
    cs # <<>> /\ \A i \in DOMAIN cs : cs[i] \in {"0", "1", "2", "3", "4", "5", "6", "7", "8", "9"}
RECURSIVE NatOf(_, _)
NatOf(cs, acc) == IF cs = <<>> THEN acc ELSE NatOf(Tail(cs), 10 * acc + DigitVal(cs[1]))
SlashAt(cs) == CHOOSE i \in DOMAIN cs : cs[i] = "/"
SideAsClaimed(cs) == IF DigitOnly(cs) THEN Num(NatOf(cs, 0)) ELSE Null
\* C14: every record is parsed without an exception; a value that is no
\* string, is empty or has no slash gives (invalid, invalid); a string with one
\* slash gives, side by side, the integer of a non-empty digit-only side and
\* invalid for any other side.
C14_ParseBloodPressure ==
    /\ pc \in {"classified", "reclassified"} => Len(scored) >= Len(allPatients)
    /\ \A i \in DOMAIN scored :
        LET raw == allPatients[((i - 1) % Len(allPatients)) + 1].blood_pressure
            e == scored[i]
        IN /\ e.sys.t \in {"null", "number"} /\ e.dia.t \in {"null", "number"}
           /\ (raw.t # "string" \/ raw.v = <<>> \/ CountSlash(raw.v) = 0)
                => (InvalidInt(e.sys) /\ InvalidInt(e.dia))
           /\ (raw.t = "string" /\ CountSlash(raw.v) = 1)
                => /\ e.sys = SideAsClaimed(SubSeq(raw.v, 1, SlashAt(raw.v) - 1))
                   /\ e.dia = SideAsClaimed(SubSeq(raw.v, SlashAt(raw.v) + 1, Len(raw.v)))
C14_Witness ==
    /\ pc = "classified"
    /\ Len(allPatients) = 1
    /\ allPatients[1].blood_pressure = Slash(<<>>, <<"8", "0">>)
    /\ scored[1].sys = Null /\ scored[1].dia = Num(80)
    /\ scored[1].hasIssue

\* ---------------------------------------------------------------- C15
\* C15 as stated: a string with two or more slashes gives (invalid, invalid),
\* so the record has a data-quality issue and blood-pressure sub-score 0.
C15_Original ==
    \A i \in DOMAIN scored :
        LET raw == allPatients[((i - 1) % Len(allPatients)) + 1].blood_pressure
            e == scored[i]
        IN (raw.t = "string" /\ CountSlash(raw.v) >= 2)
            => (InvalidInt(e.sys) /\ InvalidInt(e.dia) /\ e.hasIssue /\ e.bp = 0)

\* ---------------------------------------------------------------- C16
\* C16 as stated: classifying the same list a second time computes the same
\* scores and leaves the three lists as they were after the first time.
C16_Original ==
    pc = "reclassified" =>
        /\ \A i \in 1..Len(allPatients) : scored[Len(allPatients) + i] = scored[i]
        /\ highRisk = IdsWhere(SumAtLeast4)
        /\ feverPatients = IdsWhere(FeverAsClaimed)
        /\ dataIssues = IdsWhere(AnyInvalid)

\* ---------------------------------------------------------------- C17
FirstEntry(i) == [page |-> i, budget |-> 5]
RecoveryEntry(p) == [page |-> p, budget |-> 8]
\* the calls of the first pass and of the recovery pass in the log
FirstCalls == IF Len(callLog) < totalPages THEN Len(callLog) ELSE totalPages
RecoveryCalls == Len(callLog) - FirstCalls
\* C17: the calls made so far are pages 1, 2, ... in ascending order with
\* budget 5, then, only after all ten, the failed pages in the order in which
\* they failed with budget 8, each once; a page is recorded as failed exactly
\* when its first-pass call returns false; a page that succeeded is never
\* called again and no call follows the recovery pass.
C17_PhaseOrder ==
    /\ [](/\ \A i \in 1..FirstCalls : callLog[i] = FirstEntry(i)
          /\ RecoveryCalls <= Len(failedPages)
          /\ \A j \in 1..RecoveryCalls : callLog[FirstCalls + j] = RecoveryEntry(failedPages[j])
          /\ RecoveryCalls > 0 =>
                /\ pc \notin {"first", "first_await"}
                /\ firstOk \cup Range(failedPages) = 1..totalPages
          /\ Range(failedPages) \cap firstOk = {}
          /\ fpc # "idle" =>
                /\ callLog # <<>>
                /\ callLog[Len(callLog)] = [page |-> fpage, budget |-> maxRetries]
          /\ Returned =>
                /\ RecoveryCalls = Len(failedPages)
                /\ fpc = "idle"
                /\ ~ENABLED FirstPassCall /\ ~ENABLED RecoveryCall /\ ~ENABLED SendRequest)
    /\ [][/\ failedPages' # failedPages =>
                /\ pc = "first_await" /\ fpc = "returned" /\ ~success
                /\ failedPages' = Append(failedPages, fpage)
          /\ (pc = "first_await" /\ pc' = "first" /\ ~success) =>
                failedPages' = Append(failedPages, fpage)
          /\ (callLog' # callLog /\ pc' = "recovery_await") =>
                (page = RecoveryCalls + 1 /\ FirstCalls = totalPages)]_vars
C17_Witness ==
    /\ pc = "fetched"
    /\ failedPages = <<2, 9>>
    /\ Len(callLog) = totalPages + 2
    /\ callLog[totalPages + 1] = RecoveryEntry(2) /\ callLog[totalPages + 2] = RecoveryEntry(9)
    /\ recoveredOk = {9}

\* ---------------------------------------------------------------- C18
IsPrefix(a, b) == Len(a) <= Len(b) /\ SubSeq(b, 1, Len(a)) = a
\* C18: the record list changes only in the step in which an attempt
\* succeeds, and then by appending that response's valid records; a failed
\* attempt and a call that returns false leave it as it was when the call
\* started; no step removes, reorders or alters a record already in it.
C18_FrameOfFailure ==
    /\ []((fpc \in {"loop", "await_get", "await_timer"} \/ (fpc = "returned" /\ ~success))
            => allPatients = opStart)
    /\ [][/\ IsPrefix(allPatients, allPatients')
          /\ allPatients' # allPatients =>
                /\ fpc = "await_get" /\ fpc' = "returned" /\ success'
                /\ lastResp'.ok
                /\ allPatients' = allPatients \o Keep(ShapeList(lastResp'.body), TruthyId)
          /\ fpc' = "await_timer" => allPatients' = allPatients]_vars
C18_Witness ==
    /\ pc = "recovery_await"
    /\ fpc = "returned" /\ ~success
    /\ retries = RecoveryRetries
    /\ allPatients = opStart /\ Len(opStart) > 0

\* ---------------------------------------------------------------- C19
Entries(p) == SelectSeq(callLog, LAMBDA c : c.page = p)
RECURSIVE SumBudgets(_)
SumBudgets(cs) == IF cs = <<>> THEN 0 ELSE Head(cs).budget + SumBudgets(Tail(cs))
\* no more than: the budgets of the finished calls for page p (no call
\* exceeds its budget) plus the attempts of the call for p that is running
AttemptsUpTo(p) ==
    IF fpc # "idle" /\ fpage = p
    THEN SumBudgets(SubSeq(Entries(p), 1, Len(Entries(p)) - 1)) + attempts
    ELSE SumBudgets(Entries(p))
\* C19: a page's records are in the list at most once; a page whose call
\* succeeded is never called again, in either pass, and a call makes no
\* request after its success; no call exceeds its budget and a page gets at
\* most one call of 5 and one of 8 attempts, 13 in all.
C19_OncePerPage ==
    /\ attempts <= maxRetries
    /\ (fpc = "returned" /\ success) => ~ENABLED SendRequest
    /\ \A p \in 1..totalPages :
        /\ FromPage(allPatients, p) \in {<<>>, PageRecords(p)}
        /\ AttemptsUpTo(p) <= 13
        /\ p \in firstOk => Entries(p) = <<FirstEntry(p)>>
        /\ p \in recoveredOk => (Entries(p) = <<FirstEntry(p), RecoveryEntry(p)>> /\ p \notin firstOk)
        /\ Len(Entries(p)) <= 2
C19_Witness ==
    /\ pc = "recovery_await"
    /\ fpc = "returned" /\ success
    /\ attempts = RecoveryRetries
    /\ AttemptsUpTo(fpage) = 13
    /\ firstOk # {}

\* ---------------------------------------------------------------- C20
ScoresFever(e) == ~InvalidNum(e.t) /\ e.temp >= 1
\* C20 as stated: a record with a valid temperature is on the fever list iff
\* its temperature sub-score is 1 or 2.
C20_Original ==
    ClassifiedOnce => feverPatients = IdsWhere(ScoresFever)
====
